---- MODULE Spec2Model ----
(***************************************************************************)
(* GitRepository (nautobot/extras/models/datasources.py): the record store *)
(* of configured Git repositories, the validation done by clean(), and     *)
(* clone().  A caller is followed step by step: each database access of    *)
(* an operation is one step, so the store is visible between the save()    *)
(* and the delete() of a clone().                                          *)
(***************************************************************************)
EXTENDS Integers, Sequences, FiniteSets

VARIABLES db, pc, inst, cloned, err, branch_arg, head_arg, checked_out, ndraws, vocab

vars == <<db, pc, inst, cloned, err, branch_arg, head_arg, checked_out, ndraws, vocab>>

(***************************************************************************)
(* Bounds and input domains.                                               *)
(***************************************************************************)
\* number of uuid.uuid4() values drawn in a behaviour (primary keys and clone suffixes)
MaxUuid == 3

\* characters are one-letter strings; a name or slug is a sequence of them
Upper == {"A"}
Letters == {"a", "b", "o", "s", "A"}
Digits == {"0", "1", "2", "3", "4", "5", "6", "7", "8", "9"}

Names == {<<"a", "b">>, <<"A", " ", "b">>}
\* <<>> is the blank slug; "1a" is not identifier-safe; "os" is an installed module
Slugs == {<<>>, <<"a", "b">>, <<"1", "a">>, <<"o", "s">>}
InstalledModules == {<<"o", "s">>}

\* The values the requests of one behaviour submit: either the content kinds
\* vary, or the branches and heads do.
ContentVocab == [urls |-> {"u1", "u2"}, branches |-> {"main"}, heads |-> {""},
                 commits |-> {"h1"}, contents |-> SUBSET {"c1", "c2"}]
HeadVocab == [urls |-> {"u1", "u2"}, branches |-> {"main", "dev"}, heads |-> {"", "h1"},
              commits |-> {"h1", "h2"}, contents |-> {{}}]
Vocabs == {ContentVocab, HeadVocab}

\* Python's None for the branch/head arguments of clone(), and for a pk
None == "None"
NoPk == 0

NoInst == [id |-> NoPk, name |-> <<>>, slug |-> <<>>, remote_url |-> "", branch |-> "",
           current_head |-> "", provided_contents |-> {}, adding |-> TRUE, initial_slug |-> <<>>]

(***************************************************************************)
(* Helpers of the model: the persisted row of an instance, lookups.        *)
(***************************************************************************)
Row(self) == [id |-> self.id, name |-> self.name, slug |-> self.slug,
              remote_url |-> self.remote_url, branch |-> self.branch,
              current_head |-> self.current_head,
              provided_contents |-> self.provided_contents]

Ids(rows) == {row.id : row \in rows}

\* GitRepository.objects.get(id=...), on a store known to hold the id
GetRow(rows, id) == CHOOSE row \in rows : row.id = id

\* BaseModel.present_in_database: not self._state.adding
present_in_database(self) == ~self.adding

\* str(uuid.uuid4()): hexadecimal groups joined by dashes
HexDigits == <<"1", "2", "3", "4", "5", "6", "7", "8", "9">>

UuidStr(n) == <<HexDigits[n], "-", "4">>

(***************************************************************************)
(* Collaborators that live outside the source shown.                       *)
(***************************************************************************)
ToLower(c) == IF c = "A" THEN "a" ELSE c

\* slugify_dashes_to_underscores: lowercase, every non-alphanumeric character -> "_"
slugify_dashes_to_underscores(name) ==
    [i \in 1..Len(name) |->
        IF name[i] \in Upper THEN ToLower(name[i])
        ELSE IF name[i] \in Letters \cup Digits THEN name[i]
        ELSE "_"]

\* AutoSlugField.create_slug: the slug derived from populate_from="name"
create_slug(self) == slugify_dashes_to_underscores(self.name)

\* check_if_key_is_graphql_safe passes: fullmatch of [_A-Za-z][_0-9A-Za-z]*
graphql_safe(key) ==
    /\ Len(key) > 0
    /\ key[1] \in Letters \cup {"_"}
    /\ \A i \in 1..Len(key) : key[i] \in Letters \cup Digits \cup {"_"}

\* the unique constraint of the slug column
slug_taken(self, rows) == \E row \in rows : row.id # self.id /\ row.slug = self.slug

\* GitRepo.checkout(branch, head): the commit checked out; a given commit hash is
\* checked out as is, otherwise the branch's tip on the remote at that moment
checkout_results(head, tips) == IF head \notin {"", None} THEN {head} ELSE tips

(***************************************************************************)
(* GitRepository                                                           *)
(***************************************************************************)
\* GitRepository(**kwargs): __init__ remembers the slug the instance starts with;
\* the pk is set when the row is inserted
NewInstance(name, slug, url, branch, head, contents) ==
    [id |-> NoPk, name |-> name, slug |-> slug, remote_url |-> url, branch |-> branch,
     current_head |-> head, provided_contents |-> contents, adding |-> TRUE,
     initial_slug |-> slug]

\* an instance loaded from its row: __init__ runs with the stored slug
FromDb(row) ==
    [id |-> row.id, name |-> row.name, slug |-> row.slug, remote_url |-> row.remote_url,
     branch |-> row.branch, current_head |-> row.current_head,
     provided_contents |-> row.provided_contents, adding |-> FALSE,
     initial_slug |-> row.slug]

\* the unique=True of the name column
name_taken(self, rows) == \E row \in rows : row.id # self.id /\ row.name = self.name

\* clean(): autogenerate the slug if not set already
autogenerate_slug(self) ==
    IF self.slug = <<>> THEN [self EXCEPT !.slug = create_slug(self)] ELSE self

\* clean(): "Slug cannot be changed once set"
slug_changed(self) == present_in_database(self) /\ self.slug # self.initial_slug

\* clean(): on create, the slug must be GraphQL-safe
slug_unsafe(self) == ~present_in_database(self) /\ ~graphql_safe(self.slug)

\* clean(): on create, find_spec(self.slug) is not None
slug_is_module(self) == ~present_in_database(self) /\ self.slug \in InstalledModules

duplicate_repos_no_exclude(self, rows) ==
    {row \in rows :
        /\ row.remote_url = self.remote_url
        /\ \E item \in self.provided_contents : item \in row.provided_contents}

\* clean(): filter(remote_url=...).exclude(id=self.id).filter(Q(contains item) | ...)
duplicate_repos(self, rows) ==
    {row \in rows :
        /\ row.remote_url = self.remote_url
        /\ row.id # self.id
        /\ \E item \in self.provided_contents : item \in row.provided_contents}

\* clean(): if self.provided_contents: ... if duplicate_repos.exists(): raise
contents_overlap(self, rows) ==
    self.provided_contents # {} /\ duplicate_repos(self, rows) # {}

invalidate_head_branch_only(self, past) ==
    IF self.branch # past.branch THEN [self EXCEPT !.current_head = ""] ELSE self

\* clean(): changing branch or remote_url invalidates current_head
invalidate_head(self, past) ==
    IF self.remote_url # past.remote_url \/ self.branch # past.branch
    THEN [self EXCEPT !.current_head = ""]
    ELSE self

\* GitRepository.clean(): the error it raises ("" when it returns) and the instance
\* as clean() leaves it
clean(self, rows) ==
    LET s == autogenerate_slug(self) IN
    IF slug_changed(s) THEN [err |-> "ImmutableFieldError", inst |-> s]
    ELSE IF slug_unsafe(s) THEN [err |-> "InvalidSlugError", inst |-> s]
    ELSE IF slug_is_module(s) THEN [err |-> "ReservedNameError", inst |-> s]
    ELSE IF contents_overlap(s, rows) THEN [err |-> "ContentOverlapError", inst |-> s]
    ELSE IF ~present_in_database(s) THEN [err |-> "", inst |-> s]
    ELSE IF s.id \notin Ids(rows) THEN [err |-> "DoesNotExist", inst |-> s]
    ELSE [err |-> "", inst |-> invalidate_head(s, GetRow(rows, s.id))]

\* the form's assignment of the submitted values to the instance
Assign(self, form) ==
    [self EXCEPT !.slug = form.slug, !.remote_url = form.remote_url,
                 !.branch = form.branch, !.current_head = form.current_head,
                 !.provided_contents = form.provided_contents]

\* what a request may submit for the instance it holds
Forms(self, v) ==
    [slug : Slugs \cup {self.slug, self.initial_slug}, remote_url : v.urls,
     branch : v.branches, current_head : v.heads \cup {self.current_head},
     provided_contents : v.contents]

\* what a request may submit for a new record
NewInstances(v) ==
    {NewInstance(name, slug, url, branch, head, contents) :
        name \in Names, slug \in Slugs, url \in v.urls, branch \in v.branches,
        head \in v.heads, contents \in v.contents}

\* Model.save(): a pk of None gets a fresh value
with_pk(self, fresh) == IF self.id = NoPk THEN [self EXCEPT !.id = fresh] ELSE self

\* Model.save(): UPDATE the row of this pk, INSERT when there is none
save(self, rows) == {row \in rows : row.id # self.id} \cup {Row(self)}

\* the IntegrityError of save(): a unique column's value is taken
integrity_error(self, rows) == name_taken(self, rows) \/ slug_taken(self, rows)

\* Model.delete()
delete(self, rows) == {row \in rows : row.id # self.id}

clone_copy_same_slug(self, generated_uuid) ==
    [self EXCEPT !.id = NoPk,
                 !.name = self.name \o <<" ", "(">> \o UuidStr(generated_uuid) \o <<")">>]

\* clone(): shallow copy with pk = None and a unique name and slug
clone_copy(self, generated_uuid) ==
    [self EXCEPT !.id = NoPk,
                 !.name = self.name \o <<" ", "(">> \o UuidStr(generated_uuid) \o <<")">>,
                 !.slug = self.slug \o <<"_">> \o UuidStr(generated_uuid)]

clone_args_model_defaults(copy, branch, head) ==
    [copy EXCEPT !.branch = IF branch # None THEN branch ELSE "main",
                 !.current_head = IF head # None THEN head ELSE ""]

\* clone(): the branch/head argument policy applied to the copy
clone_args(copy, branch, head) ==
    IF branch # None
    THEN [copy EXCEPT !.branch = branch,
                      !.current_head = IF head # None THEN head ELSE copy.current_head]
    ELSE copy

\* clone(): the local variables branch and head after the argument policy
local_branch(copy, branch, head) ==
    IF branch = None /\ head = None THEN copy.branch ELSE branch

local_head(copy, branch, head) ==
    IF branch = None /\ head = None THEN copy.current_head ELSE head

(***************************************************************************)
(* The state machine.                                                      *)
(*   db          the persisted GitRepository rows                          *)
(*   pc          where the request is                                      *)
(*   inst        the instance the request holds (self)                     *)
(*   cloned      cloned_git_repo of the request's clone() call             *)
(*   err         the exception the request's operation raised, "" if none  *)
(*   branch_arg, head_arg   the arguments the clone() call was given       *)
(*   checked_out the commit repo_helper.checkout returned                  *)
(*   ndraws      uuid4() values drawn so far                               *)
(***************************************************************************)
Init ==
    /\ db = {}
    /\ pc = "idle"
    /\ inst = NoInst
    /\ cloned = NoInst
    /\ err = ""
    /\ branch_arg = None
    /\ head_arg = None
    /\ checked_out = None
    /\ ndraws = 0
    /\ vocab \in Vocabs

\* the exception reaches the caller
Raise(e) ==
    /\ pc' = "raised"
    /\ err' = e
    /\ inst' = NoInst

\* the request builds a new GitRepository from submitted values and validates it
Create ==
    /\ pc = "idle"
    /\ \E new \in NewInstances(vocab) :
          LET res == clean(new, db)
          IN IF res.err = ""
             THEN /\ pc' = "cleaned"
                  /\ inst' = res.inst
                  /\ err' = ""
             ELSE Raise(res.err)
    /\ UNCHANGED <<db, cloned, branch_arg, head_arg, checked_out, ndraws, vocab>>

\* the request loads a persisted record
Load ==
    /\ pc = "idle"
    /\ \E row \in db : inst' = FromDb(row)
    /\ pc' = "held"
    /\ err' = ""
    /\ UNCHANGED <<db, cloned, branch_arg, head_arg, checked_out, ndraws, vocab>>

\* the request assigns submitted values to the instance it holds and validates it
Validate ==
    /\ pc = "held"
    /\ \E form \in Forms(inst, vocab) :
          LET res == clean(Assign(inst, form), db)
          IN IF res.err = ""
             THEN /\ pc' = "cleaned"
                  /\ inst' = res.inst
                  /\ err' = ""
             ELSE Raise(res.err)
    /\ UNCHANGED <<db, cloned, branch_arg, head_arg, checked_out, ndraws, vocab>>

\* save() of the validated instance
Save ==
    /\ pc = "cleaned"
    /\ inst.id = NoPk => ndraws < MaxUuid
    /\ LET self == with_pk(inst, ndraws + 1)
       IN IF integrity_error(self, db)
          THEN /\ Raise("IntegrityError")
               /\ UNCHANGED <<db, ndraws>>
          ELSE /\ db' = save(self, db)
               /\ inst' = [self EXCEPT !.adding = FALSE]
               /\ ndraws' = IF inst.id = NoPk THEN ndraws + 1 ELSE ndraws
               /\ pc' = "held"
               /\ err' = err
    /\ UNCHANGED <<cloned, branch_arg, head_arg, checked_out, vocab>>

\* delete() of the held record
Delete ==
    /\ pc = "held"
    /\ db' = delete(inst, db)
    /\ pc' = "idle"
    /\ inst' = NoInst
    /\ UNCHANGED <<cloned, err, branch_arg, head_arg, checked_out, ndraws, vocab>>

\* clone(branch, head) up to and including its first save()
CloneStart ==
    /\ pc = "held"
    /\ ndraws + 2 <= MaxUuid
    /\ \E branch \in vocab.branches \cup {None}, head \in vocab.commits \cup {None} :
          LET copy == clone_args(clone_copy(inst, ndraws + 1), branch, head)
              saved == with_pk(copy, ndraws + 2)
          IN /\ branch_arg' = branch
             /\ head_arg' = head
             /\ IF integrity_error(saved, db)
                THEN /\ Raise("IntegrityError")
                     /\ UNCHANGED <<db, cloned>>
                ELSE /\ db' = save(saved, db)
                     /\ cloned' = saved
                     /\ pc' = IF branch = None /\ head # None THEN "clone_invalid"
                              ELSE "clone_saved"
                     /\ UNCHANGED <<inst, err>>
    /\ ndraws' = ndraws + 2
    /\ UNCHANGED <<checked_out, vocab>>

\* clone(): head without branch: delete() what was saved, raise ValueError
CloneInvalid ==
    /\ pc = "clone_invalid"
    /\ db' = delete(cloned, db)
    /\ Raise("ValueError")
    /\ UNCHANGED <<cloned, branch_arg, head_arg, checked_out, ndraws, vocab>>

\* clone(): get_repo_from_url_to_path_and_from_branch raises, outside the try
CloneUrlError ==
    /\ pc = "clone_saved"
    /\ Raise("FromUrlError")
    /\ UNCHANGED <<db, cloned, branch_arg, head_arg, checked_out, ndraws, vocab>>

\* clone(): GitRepo(...) or checkout raises: except: delete(), raise
CloneGitError ==
    /\ pc = "clone_saved"
    /\ db' = delete(cloned, db)
    /\ Raise("GitAccessError")
    /\ UNCHANGED <<cloned, branch_arg, head_arg, checked_out, ndraws, vocab>>

\* clone(): the checkout succeeds; return cloned_git_repo
CloneReturn ==
    /\ pc = "clone_saved"
    /\ \E commit \in checkout_results(local_head(cloned, branch_arg, head_arg), vocab.commits) :
          checked_out' = commit
    /\ pc' = "clone_ret"
    /\ UNCHANGED <<db, inst, cloned, err, branch_arg, head_arg, ndraws, vocab>>

\* the caller goes on with the record clone() returned
Adopt ==
    /\ pc = "clone_ret"
    /\ inst' = cloned
    /\ cloned' = NoInst
    /\ branch_arg' = None
    /\ head_arg' = None
    /\ checked_out' = None
    /\ pc' = "held"
    /\ UNCHANGED <<db, err, ndraws, vocab>>

\* the caller deletes the record it cloned and goes on with the clone
AdoptAndDeleteSource ==
    /\ pc = "clone_ret"
    /\ db' = delete(inst, db)
    /\ inst' = cloned
    /\ cloned' = NoInst
    /\ branch_arg' = None
    /\ head_arg' = None
    /\ checked_out' = None
    /\ pc' = "held"
    /\ UNCHANGED <<err, ndraws, vocab>>

\* the request ends
Release ==
    /\ pc \in {"held", "cleaned", "raised", "clone_ret"}
    /\ pc' = "idle"
    /\ inst' = NoInst
    /\ cloned' = NoInst
    /\ err' = ""
    /\ branch_arg' = None
    /\ head_arg' = None
    /\ checked_out' = None
    /\ UNCHANGED <<db, ndraws, vocab>>

Next ==
    \/ Create
    \/ Load
    \/ Validate
    \/ Save
    \/ Delete
    \/ CloneStart
    \/ CloneInvalid
    \/ CloneUrlError
    \/ CloneGitError
    \/ CloneReturn
    \/ Adopt
    \/ AdoptAndDeleteSource
    \/ Release

Spec == Init /\ [][Next]_vars

(***************************************************************************)
(* Properties.                                                             *)
(***************************************************************************)
\* the instances clean() may be called on in the current state
Candidates ==
    IF pc = "idle" THEN NewInstances(vocab)
    ELSE IF pc = "held" THEN {Assign(inst, form) : form \in Forms(inst, vocab)}
    ELSE {}

\* some other persisted record has the same remote_url and a content kind in common
OtherOverlapping(self, rows) ==
    \E row \in rows :
        /\ row.id # self.id
        /\ row.remote_url = self.remote_url
        /\ row.provided_contents \cap self.provided_contents # {}

SlugErrors == {"ImmutableFieldError", "InvalidSlugError", "ReservedNameError"}

\* C1: no two distinct persisted records have the same remote_url and share an
\* entry of provided_contents.
C1_NoOverlappingRecords ==
    \A r1 \in db, r2 \in db :
        (r1 # r2 /\ r1.remote_url = r2.remote_url)
            => r1.provided_contents \cap r2.provided_contents = {}

\* C2 as stated: clean() of a candidate with non-empty provided_contents fails with
\* the overlap error if and only if another persisted record has the same
\* remote_url and a content kind in common.
C2_OverlapIff ==
    \A self \in Candidates :
        self.provided_contents # {}
            => ((clean(self, db).err = "ContentOverlapError") <=> OtherOverlapping(self, db))

\* C2 amended: when clean() is not stopped by one of its slug checks, which come
\* first, it fails with the overlap error if and only if provided_contents is
\* non-empty and another persisted record (different id) has the same remote_url and
\* a content kind in common; the candidate's own row never counts.
C2_OverlapIffPastSlugChecks ==
    \A self \in Candidates :
        clean(self, db).err \notin SlugErrors
            => ((clean(self, db).err = "ContentOverlapError")
                    <=> (self.provided_contents # {} /\ OtherOverlapping(self, db)))

\* a validation has failed on the overlap check
C2_Witness == pc = "raised" /\ err = "ContentOverlapError"

\* C3: an update whose remote_url or branch differs from the persisted value
\* writes current_head = "" in that same save, together with the new values.
C3_HeadClearedInSameWrite ==
    [][(pc = "cleaned" /\ pc' = "held" /\ present_in_database(inst) /\ inst.id \in Ids(db))
        => LET past == GetRow(db, inst.id)
               written == GetRow(db', inst.id)
           IN (inst.remote_url # past.remote_url \/ inst.branch # past.branch)
                => /\ written.current_head = ""
                   /\ written.remote_url = inst.remote_url
                   /\ written.branch = inst.branch]_vars

\* a validated update that changes the branch of a record with a non-empty head
C3_Witness ==
    /\ pc = "cleaned"
    /\ present_in_database(inst)
    /\ inst.id \in Ids(db)
    /\ GetRow(db, inst.id).branch # inst.branch
    /\ GetRow(db, inst.id).current_head # ""
    /\ inst.current_head = ""

\* C4: for a persisted record, clean() of a candidate whose slug differs from the
\* persisted slug fails with "Slug cannot be changed once set".
C4_SlugChangeRejected ==
    (pc = "held" /\ present_in_database(inst) /\ inst.id \in Ids(db))
        => \A form \in Forms(inst, vocab) :
              (form.slug # <<>> /\ form.slug # GetRow(db, inst.id).slug)
                  => clean(Assign(inst, form), db).err = "ImmutableFieldError"

\* C4, its consequence: the persisted slug of a record never changes.
C4_SlugNeverChanges ==
    [][\A old \in db : \A new \in db' : old.id = new.id => old.slug = new.slug]_vars

\* C5: when clone() fails after its save(), no record of that attempt remains.
C5_NoRecordAfterFailedClone ==
    (pc = "raised" /\ err \in {"FromUrlError", "GitAccessError"})
        => cloned.id \notin Ids(db)

\* C6: after a successful clone() the new record's current_head is the commit the
\* checkout returned.
C6_HeadIsCheckedOutCommit ==
    pc = "clone_ret"
        => /\ cloned.current_head = checked_out
           /\ \A row \in db : row.id = cloned.id => row.current_head = checked_out

\* C7: clone() with neither branch nor head returns a new persisted record with the
\* source's branch, current_head and remote_url and another name, slug and pk; the
\* source is left as it was.
C7_CloneDefaults ==
    (pc = "clone_ret" /\ branch_arg = None /\ head_arg = None)
        => /\ Row(cloned) \in db
           /\ cloned.branch = inst.branch
           /\ cloned.current_head = inst.current_head
           /\ cloned.remote_url = inst.remote_url
           /\ cloned.name # inst.name
           /\ cloned.slug # inst.slug
           /\ cloned.id # inst.id
           /\ Row(inst) \in db

\* clone() without arguments has returned, for a record on another branch than the
\* default and with a head
C7_Witness ==
    /\ pc = "clone_ret"
    /\ branch_arg = None
    /\ head_arg = None
    /\ inst.branch = "dev"
    /\ inst.current_head = "h1"

\* C8: clone() with head and without branch persists no record, at any moment of the
\* call.
C8_InvalidArgsPersistNothing ==
    (branch_arg = None /\ head_arg # None) => cloned.id \notin Ids(db)

\* C9: every persisted slug is safe as a query-language identifier.
C9_PersistedSlugsSafe == \A row \in db : graphql_safe(row.slug)

\* C10: clean() of a held instance that is in the database, with the slug its row
\* has, does not fail with "Slug cannot be changed once set".
C10_UnchangedSlugAccepted ==
    (pc = "held" /\ present_in_database(inst) /\ inst.id \in Ids(db)
        /\ GetRow(db, inst.id).slug = inst.slug)
        => clean(inst, db).err # "ImmutableFieldError"

====
